---- MODULE Spec2Model ----
(***************************************************************************)
(* TaskMeister (src/taskmeister.py): the assignment / availability engine. *)
(*                                                                         *)
(* The SQLite store is the three tables workers, houses and                *)
(* assignment_history with their columns; the session state is the fields  *)
(* of TaskMeisterApp that the handlers read and write.  Every action is    *)
(* one Tk callback of the application, translated with every call it       *)
(* makes.  A storage error is modelled where a batch is written, in        *)
(* _send_assignments, and where the schema is created and migrated, in     *)
(* initialize_database.                                                    *)
(*                                                                         *)
(* Specifications:                                                         *)
(*   Spec         a session on a fresh, initialized store                  *)
(*   SpecForm     the assignment form of a session on a filled store       *)
(*   SpecMigrate  initialize_database on stores of earlier versions        *)
(*   SpecStartup  main() on such a store, then the session's handlers      *)
(*   SpecHistory  the history window: list, filter and export              *)
(*   SpecRepository  fetch_all and execute, with the errors they raise     *)
(*   SpecRoster   workers and houses added and deleted between commits     *)
(***************************************************************************)
EXTENDS Integers, Sequences, FiniteSets, TLC

(***************************************************************************)
(* Bounds of the model and the small sets the user's inputs are drawn from *)
(***************************************************************************)
MaxWorkers == 1
MaxHouses == 2
MaxHistory == 2
MaxStoredRows == 2
MaxInitRuns == 3
MaxRoster == 2

WorkerInputs == { <<"Ana", "ana@x.com">>, <<"Bo", "bo@x.com">> }
HouseNames == { "A", "B" }
Quantities == { 0, 1 }
Notes == { "", "late ok" }
\* Texts typed into the filter entry of the history window
FilterTexts == { << >>, << "b" >>, << "N", "A" >>, << "L", "a", "T", "e" >>,
                 << "x" >> }
Tomorrow == [year |-> 2024, month |-> 5, day |-> 1]
Dates == { Tomorrow, [year |-> 2024, month |-> 5, day |-> 2] }

\* CURRENT_TIMESTAMP values of stored rows, in seconds from 2024-05-01
\* 00:00:00: two seconds of two minutes of the first day, and the first second
\* of the second day
SecondsPerDay == 86400
Timestamps == { 59, 60, SecondsPerDay }

\* SQL NULL, one per type of column it is stored in
NullDate == << >>
NullFlag == -1
NullText == "(NULL)"

\* Python's None, one per type of value it stands in for
NoWorker == << >>
NoDate == [year |-> 0, month |-> 0, day |-> 0]
NoMessage == "(no messagebox)"
NoCall == [ to_email |-> "", worker_name |-> "", assignments |-> << >>,
            assignment_date |-> << >> ]
\* No history window is open: there is no filter entry
NoFilter == << "(no window)" >>
\* No fetch_all / execute call was made yet
NoResult == [ call |-> "(no call)", raised |-> FALSE, rows |-> << >> ]

VARIABLES
    workers,          \* table workers: id -> [name, email]
    houses,           \* table houses: id -> name
    history,          \* table assignment_history, in id order
    worker_seq,       \* sqlite_sequence of workers (AUTOINCREMENT)
    house_seq,        \* sqlite_sequence of houses (AUTOINCREMENT)
    workers_cache,    \* self.workers_cache
    worker_sel,       \* self.worker_list.curselection(): an index or 0
    current_worker,   \* self.current_worker
    date_picker,      \* self.date_picker's date, NoDate without tkcalendar
    all_houses,       \* self.all_houses
    house_frames,     \* keys of self.house_frames, in insertion order
    house_vars,       \* self.house_vars: house id -> 0 | 1
    house_qty,        \* self.house_qty: house id -> quantity
    house_notes,      \* self.house_notes
    msg,              \* the messagebox shown in the last step, if any
    email_call,       \* the send_assignment_email call of the last step, if any
    schema,           \* sqlite_master: table name -> the set of its columns
    init_log,         \* what each run of initialize_database printed
    process,          \* where main() is: not started, in mainloop, or failed
    tree,             \* the lines of the history window's Treeview
    filter_var,       \* the text of the history window's filter entry
    csvfile,          \* the rows of the exported CSV file, the header first
    open_connections, \* sqlite3 connections opened and not yet closed
    returned          \* how the last fetch_all / execute call ended

vars == << workers, houses, history, worker_seq, house_seq, workers_cache,
           worker_sel, current_worker, date_picker, all_houses, house_frames,
           house_vars, house_qty, house_notes, msg, email_call, schema,
           init_log, process, tree, filter_var, csvfile, open_connections,
           returned >>

dbVars == << workers, houses, history, worker_seq, house_seq >>
workerUi == << workers_cache, worker_sel, current_worker >>
houseUi == << all_houses, house_frames, house_vars, house_qty >>
startupVars == << schema, init_log, process >>
historyWin == << tree, filter_var, csvfile >>
repoVars == << open_connections, returned >>

(***************************************************************************)
(* Helpers                                                                 *)
(***************************************************************************)
Range(s) == { s[i] : i \in DOMAIN s }

\* Binary order of the TEXT values the model uses (SQLite's BINARY collation).
TextOrder == << "A", "Ana", "B", "Bo" >>
TextRank(t) == CHOOSE i \in DOMAIN TextOrder : TextOrder[i] = t

\* The results an "ORDER BY name ASC" over the rows S may come back in:
\* rows of equal name are in no specified order.
OrderByName(S) ==
    { s \in [1..Cardinality(S) -> S] :
        \A i, j \in 1..Cardinality(S) :
            i < j => /\ s[i] # s[j]
                     /\ TextRank(s[i][2]) <= TextRank(s[j][2]) }

\* strftime('%Y-%m-%d') and strftime('%d.%m.%Y') of a date, as their fields.
strftime_iso(d) == << d.year, d.month, d.day >>
strftime_dmy(d) == << d.day, d.month, d.year >>

(***************************************************************************)
(* Schema store (DatabaseManager.initialize_database)                      *)
(***************************************************************************)
\* The columns _create_tables gives each table
WorkersColumns == { "id", "name", "email" }
HousesColumns == { "id", "name" }
HistoryColumns == { "id", "worker_id", "house_id", "quantity", "note",
                    "date_assigned" }

\* The schema of a store no table has been created in
NoTables == [ t \in { } |-> { } ]

\* The schema after a complete initialization
MigratedSchema ==
    [ t \in { "workers", "houses", "assignment_history" } |->
        IF t = "workers" THEN WorkersColumns
        ELSE IF t = "houses" THEN HousesColumns
        ELSE HistoryColumns \cup { "assignment_date", "email_sent" } ]

\* A statement that names assignment_date and email_sent of
\* assignment_history runs on the schema sch; otherwise it raises
\* sqlite3.OperationalError (no such table / no such column).
history_columns_exist(sch) ==
    /\ "assignment_history" \in DOMAIN sch
    /\ { "assignment_date", "email_sent" } \subseteq sch["assignment_history"]

\* Mutant of create_table: the table is dropped and created again.
create_table_replace(store, t, columns) ==
    [ schema  |-> [ x \in DOMAIN store.schema \cup { t } |->
                      IF x = t THEN columns ELSE store.schema[x] ],
      history |-> IF t = "assignment_history" THEN << >> ELSE store.history ]

\* CREATE TABLE IF NOT EXISTS t (columns): an existing table is left as it is
create_table(store, t, columns) ==
    IF t \in DOMAIN store.schema
    THEN store
    ELSE [ store EXCEPT !.schema =
             [ x \in DOMAIN store.schema \cup { t } |->
                 IF x = t THEN columns ELSE store.schema[x] ] ]

\* Mutant of add_column: the table is rebuilt with the new column and its
\* rows are not copied.
add_column_rebuild(store, column, default) ==
    [ schema  |-> [ store.schema EXCEPT
                      !["assignment_history"] = @ \cup { column } ],
      history |-> << >> ]

\* ALTER TABLE assignment_history ADD COLUMN column [DEFAULT default]: every
\* row reads the default in the new column (NULL without a DEFAULT clause)
add_column(store, column, default) ==
    [ schema  |-> [ store.schema EXCEPT
                      !["assignment_history"] = @ \cup { column } ],
      history |-> [ i \in DOMAIN store.history |->
                      [ c \in DOMAIN store.history[i] \cup { column } |->
                          IF c = column THEN default
                          ELSE store.history[i][c] ] ] ]

\* Mutant of DATE: the date of the first day, whatever the timestamp.
DATE_first_day(timestamp) == << 2024, 5, 1 >>

\* SQLite's DATE(date_assigned): the '%Y-%m-%d' part of the timestamp, for
\* timestamps of May 2024
DATE(timestamp) == << 2024, 5, 1 + (timestamp \div SecondsPerDay) >>

\* UPDATE assignment_history SET assignment_date = DATE(date_assigned)
\*     WHERE assignment_date IS NULL
backfill_assignment_date(store) ==
    [ store EXCEPT !.history =
        [ i \in DOMAIN store.history |->
            IF store.history[i].assignment_date = NullDate
            THEN [ store.history[i] EXCEPT
                     !.assignment_date = DATE(store.history[i].date_assigned) ]
            ELSE store.history[i] ] ]

\* UPDATE assignment_history SET email_sent = 1 WHERE email_sent IS NULL
backfill_email_sent(store) ==
    [ store EXCEPT !.history =
        [ i \in DOMAIN store.history |->
            IF store.history[i].email_sent = NullFlag
            THEN [ store.history[i] EXCEPT !.email_sent = 1 ]
            ELSE store.history[i] ] ]

\* _create_tables: its three statements
create_tables == << "CREATE workers", "CREATE houses",
                    "CREATE assignment_history" >>

\* _migrate_database: the statements it executes when PRAGMA table_info
\* reports `columns`
migrate_database(columns) ==
    << "PRAGMA table_info" >>
    \o ( IF "assignment_date" \notin columns
         THEN << "ADD assignment_date", "UPDATE assignment_date" >>
         ELSE << >> )
    \o ( IF "email_sent" \notin columns
         THEN << "ADD email_sent", "UPDATE email_sent" >>
         ELSE << >> )

\* What one statement does to the tables it runs on
statement_effect(store, stmt) ==
    CASE stmt = "CREATE workers" ->
             create_table(store, "workers", WorkersColumns)
      [] stmt = "CREATE houses" ->
             create_table(store, "houses", HousesColumns)
      [] stmt = "CREATE assignment_history" ->
             create_table(store, "assignment_history", HistoryColumns)
      [] stmt = "ADD assignment_date" ->
             add_column(store, "assignment_date", NullDate)
      [] stmt = "UPDATE assignment_date" ->
             backfill_assignment_date(store)
      [] stmt = "ADD email_sent" ->
             add_column(store, "email_sent", 1)
      [] stmt = "UPDATE email_sent" ->
             backfill_email_sent(store)
      [] OTHER -> store

\* cursor.execute(stmt) / conn.commit() on the connection conn, which holds
\* the committed tables, the tables the connection sees and whether a
\* transaction is open.  The sqlite3 module opens a transaction before an
\* UPDATE and before no other statement of this sequence; a CREATE TABLE or
\* ALTER TABLE outside a transaction is committed as it is executed, inside
\* one it belongs to it.
execute_statement(conn, stmt) ==
    IF stmt = "conn.commit"
    THEN [ committed |-> conn.working, working |-> conn.working,
           in_transaction |-> FALSE ]
    ELSE IF conn.in_transaction \/ stmt \in { "UPDATE assignment_date",
                                              "UPDATE email_sent" }
    THEN [ committed |-> conn.committed,
           working |-> statement_effect(conn.working, stmt),
           in_transaction |-> TRUE ]
    ELSE [ committed |-> statement_effect(conn.working, stmt),
           working |-> statement_effect(conn.working, stmt),
           in_transaction |-> FALSE ]

\* The connection after the first k statements of stmts
RECURSIVE execute_statements(_, _, _)
execute_statements(conn, stmts, k) ==
    IF k = 0
    THEN conn
    ELSE execute_statement(execute_statements(conn, stmts, k - 1), stmts[k])

\* The lines _migrate_database has printed after the first k statements
printed_lines(stmts, k) ==
    LET line(i) == IF stmts[i] = "UPDATE assignment_date"
                   THEN "Added assignment_date column."
                   ELSE IF stmts[i] = "UPDATE email_sent"
                   THEN "Added email_sent column."
                   ELSE ""
        printing(i) == line(i) # ""
        at == SelectSeq([ i \in 1..k |-> i ], printing)
    IN  [ j \in DOMAIN at |-> line(at[j]) ]

PrintedOk == "Database initialized successfully."
PrintedError == "Database initialization error"

\* initialize_database on the store: every statement and the commit succeed
\* and it prints PrintedOk, or statement k + 1 raises sqlite3.Error, it
\* prints PrintedError and conn.rollback() leaves what is committed by then.
initialize_database_outcomes(store) ==
    LET created == execute_statements(
                       [ committed |-> store, working |-> store,
                         in_transaction |-> FALSE ],
                       create_tables, Len(create_tables))
        columns == created.working.schema["assignment_history"]
        stmts   == create_tables \o migrate_database(columns)
                                 \o << "conn.commit" >>
        conn(k) == execute_statements(
                       [ committed |-> store, working |-> store,
                         in_transaction |-> FALSE ],
                       stmts, k)
    IN  { [ store   |-> conn(Len(stmts)).committed,
            printed |-> Append(printed_lines(stmts, Len(stmts)), PrintedOk) ] }
        \cup
        { [ store   |-> conn(k).committed,
            printed |-> Append(printed_lines(stmts, k), PrintedError) ] :
            k \in 0..(Len(stmts) - 1) }

\* The run of initialize_database that printed `lines` was committed
initialized_ok(lines) == lines[Len(lines)] = PrintedOk

(***************************************************************************)
(* Repository reads and writes (DatabaseManager.fetch_all / execute with   *)
(* the SQL text of each call site)                                         *)
(***************************************************************************)
\* SELECT id, name, email FROM workers ORDER BY name ASC
fetch_workers(w_tbl) ==
    OrderByName({ << id, w_tbl[id].name, w_tbl[id].email >> : id \in DOMAIN w_tbl })

\* SELECT id, name FROM houses ORDER BY name ASC
fetch_houses(h_tbl) ==
    OrderByName({ << id, h_tbl[id] >> : id \in DOMAIN h_tbl })

\* Mutant of insert_worker: the id column is INTEGER PRIMARY KEY without
\* AUTOINCREMENT, so the new id is the largest id of the table + 1.
insert_worker_rowid(w_tbl, seq, name, email) ==
    LET top == IF DOMAIN w_tbl = { } THEN 0
               ELSE CHOOSE m \in DOMAIN w_tbl : \A i \in DOMAIN w_tbl : i <= m
    IN  [ id \in DOMAIN w_tbl \cup { top + 1 } |->
            IF id = top + 1 THEN [name |-> name, email |-> email]
            ELSE w_tbl[id] ]

\* INSERT INTO workers(name, email) VALUES(?, ?): the id is sqlite_sequence + 1
insert_worker(w_tbl, seq, name, email) ==
    [ id \in DOMAIN w_tbl \cup { seq + 1 } |->
        IF id = seq + 1 THEN [name |-> name, email |-> email] ELSE w_tbl[id] ]

\* UPDATE workers SET name=?, email=? WHERE id=?
update_worker(w_tbl, id, name, email) ==
    [ w_tbl EXCEPT ![id] = [name |-> name, email |-> email] ]

\* DELETE FROM workers WHERE id=?  (foreign keys are not enforced: the
\* connection never sets PRAGMA foreign_keys, so no history row is touched)
delete_worker_row(w_tbl, id) ==
    [ i \in DOMAIN w_tbl \ { id } |-> w_tbl[i] ]

\* Mutant of history_after_delete: the delete cascades to the history rows.
history_cascade_delete(hist, column, id) ==
    LET keep(r) == r[column] # id
    IN  SelectSeq(hist, keep)

\* assignment_history after a DELETE FROM workers / houses WHERE id=?: the
\* FOREIGN KEY clauses of the table name no ON DELETE action and the
\* connection never turns foreign keys on, so the rows that point at the
\* deleted id stay as they are.
history_after_delete(hist, column, id) == hist

\* INSERT INTO houses(name) VALUES(?)
insert_house(h_tbl, seq, name) ==
    [ id \in DOMAIN h_tbl \cup { seq + 1 } |->
        IF id = seq + 1 THEN name ELSE h_tbl[id] ]

\* UPDATE houses SET name=? WHERE id=?
update_house(h_tbl, id, name) == [ h_tbl EXCEPT ![id] = name ]

\* DELETE FROM houses WHERE id=?
delete_house_row(h_tbl, id) ==
    [ i \in DOMAIN h_tbl \ { id } |-> h_tbl[i] ]

\* Mutant of insert_assignment: the row is written with email_sent = 0.
insert_assignment_pending(hist, worker_id, sel, assignment_date, ts) ==
    Append(hist, [ worker_id       |-> worker_id,
                   house_id        |-> sel[1],
                   quantity        |-> sel[2],
                   note            |-> sel[3],
                   assignment_date |-> assignment_date,
                   date_assigned   |-> ts,
                   email_sent      |-> 0 ])

\* INSERT INTO assignment_history(worker_id, house_id, quantity, note,
\*     assignment_date, email_sent) VALUES (?, ?, ?, ?, ?, 1)
\* date_assigned takes its default CURRENT_TIMESTAMP, here the clock reading ts.
\* The row's id is its position: rows are never deleted.
insert_assignment(hist, worker_id, sel, assignment_date, ts) ==
    Append(hist, [ worker_id       |-> worker_id,
                   house_id        |-> sel[1],
                   quantity        |-> sel[2],
                   note            |-> sel[3],
                   assignment_date |-> assignment_date,
                   date_assigned   |-> ts,
                   email_sent      |-> 1 ])

\* The CURRENT_TIMESTAMP values (in seconds) k consecutive inserts can see.
\* The clock does not go back behind the newest row; an insert falls in the
\* second of the insert before it or in the next one.
ClockReadings(hist, k) ==
    LET lo == IF hist = << >> THEN 1 ELSE hist[Len(hist)].date_assigned
    IN  { t \in [1..k -> lo..(lo + k)] :
            \A i \in 1..k :
                t[i] - (IF i = 1 THEN lo ELSE t[i - 1]) \in { 0, 1 } }

(***************************************************************************)
(* Availability                                                            *)
(***************************************************************************)
\* Mutant of get_assigned_houses_for_date: the WHERE clause forgets the date.
get_assigned_houses_any_date(hist, date_str) ==
    { hist[i].house_id : i \in { j \in DOMAIN hist : hist[j].email_sent = 1 } }

\* SELECT DISTINCT house_id FROM assignment_history
\*     WHERE assignment_date = ? AND email_sent = 1
get_assigned_houses_for_date(hist, date_str) ==
    { hist[i].house_id :
        i \in { j \in DOMAIN hist : /\ hist[j].assignment_date = date_str
                                    /\ hist[j].email_sent = 1 } }

\* [(hid, name) for hid, name in rows if hid not in assigned_houses]
available_houses(rows, assigned_houses) ==
    LET keep(r) == r[1] \notin assigned_houses
    IN  SelectSeq(rows, keep)

\* assigned_houses of _refresh_houses: without a date picker the read is not
\* made; a read that raises (the table or a column it names is missing) is
\* caught by the bare except and assigned_houses stays [].
assigned_for_picker(sch, hist, picker) ==
    IF picker = NoDate
    THEN { }
    ELSE IF ~ history_columns_exist(sch)
    THEN { }
    ELSE get_assigned_houses_for_date(hist, strftime_iso(picker))

\* What _refresh_houses computes on the store (sch, h_tbl, hist) with the
\* picker showing `picker`: the fetched rows and the available houses among
\* them.
refresh_results(sch, h_tbl, hist, picker) ==
    { [ rows  |-> rows,
        avail |-> available_houses(rows,
                                   assigned_for_picker(sch, hist, picker)) ] :
      rows \in fetch_houses(h_tbl) }

\* _refresh_houses: rebuilds all_houses and one frame, check box (0) and
\* quantity (1) per available house.  house_notes is left alone.
refresh_houses(sch, h_tbl, hist, picker) ==
    \E res \in refresh_results(sch, h_tbl, hist, picker) :
        LET ids == { res.avail[i][1] : i \in DOMAIN res.avail }
        IN  /\ all_houses' = res.rows
            /\ house_frames' = [ i \in DOMAIN res.avail |-> res.avail[i][1] ]
            /\ house_vars' = [ h \in ids |-> 0 ]
            /\ house_qty' = [ h \in ids |-> 1 ]

\* _refresh_workers on the table w_tbl: the listbox is emptied and refilled,
\* which drops its selection.
refresh_workers(w_tbl) ==
    /\ workers_cache' \in fetch_workers(w_tbl)
    /\ worker_sel' = 0

EmptyDict == [ h \in { } |-> "" ]

(***************************************************************************)
(* Initial state: a fresh store, after TaskMeisterApp.__init__ and         *)
(* _load_initial_data; tkcalendar is installed or it is not.               *)
(***************************************************************************)
Init ==
    /\ workers = [ id \in { } |-> [name |-> "", email |-> ""] ]
    /\ houses = [ id \in { } |-> "" ]
    /\ history = << >>
    /\ worker_seq = 0
    /\ house_seq = 0
    /\ workers_cache = << >>
    /\ worker_sel = 0
    /\ current_worker = NoWorker
    /\ date_picker \in { Tomorrow, NoDate }
    /\ all_houses = << >>
    /\ house_frames = << >>
    /\ house_vars = [ h \in { } |-> 0 ]
    /\ house_qty = [ h \in { } |-> 1 ]
    /\ house_notes = EmptyDict
    /\ msg = NoMessage
    /\ email_call = NoCall
    /\ schema = MigratedSchema
    /\ init_log = << << "Added assignment_date column.",
                        "Added email_sent column.", PrintedOk >> >>
    /\ process = "mainloop"
    /\ tree = << >>
    /\ filter_var = NoFilter
    /\ csvfile = << >>
    /\ open_connections = 0
    /\ returned = NoResult

(***************************************************************************)
(* Worker handlers                                                         *)
(***************************************************************************)
\* _add_worker with the dialog saved as (name, email); the model stops
\* adding workers once `limit` ids have been given out
add_worker_within(limit) ==
    \E in \in WorkerInputs :
        /\ worker_seq < limit
        /\ workers' = insert_worker(workers, worker_seq, in[1], in[2])
        /\ worker_seq' = worker_seq + 1
        /\ refresh_workers(workers')
        /\ msg' = NoMessage
        /\ email_call' = NoCall
        /\ UNCHANGED << startupVars, historyWin, repoVars >>
        /\ UNCHANGED << houses, history, house_seq, current_worker, date_picker,
                        houseUi, house_notes >>

add_worker == add_worker_within(MaxWorkers)

\* _on_worker_select: the user clicks line i of the listbox
on_worker_select ==
    \E i \in DOMAIN workers_cache :
        /\ worker_sel' = i
        /\ current_worker' = workers_cache[i]
        /\ house_notes' = EmptyDict
        /\ refresh_houses(schema, houses, history, date_picker)
        /\ msg' = NoMessage
        /\ email_call' = NoCall
        /\ UNCHANGED << startupVars, historyWin, repoVars >>
        /\ UNCHANGED << dbVars, workers_cache, date_picker >>

\* _unselect_worker
unselect_worker ==
    /\ worker_sel' = 0
    /\ current_worker' = NoWorker
    /\ house_notes' = EmptyDict
    /\ refresh_houses(schema, houses, history, date_picker)
    /\ msg' = NoMessage
    /\ email_call' = NoCall
    /\ UNCHANGED << startupVars, historyWin, repoVars >>
    /\ UNCHANGED << dbVars, workers_cache, date_picker >>

\* _edit_worker: current_worker keeps the tuple it was given at selection
edit_worker ==
    \/ /\ worker_sel = 0
       /\ msg' = "Please select a worker to edit."
       /\ email_call' = NoCall
       /\ UNCHANGED << startupVars, historyWin, repoVars >>
       /\ UNCHANGED << dbVars, workerUi, date_picker, houseUi, house_notes >>
    \/ /\ worker_sel # 0
       /\ \E in \in WorkerInputs :
            /\ workers' = update_worker(workers, workers_cache[worker_sel][1],
                                        in[1], in[2])
            /\ refresh_workers(workers')
       /\ msg' = NoMessage
       /\ email_call' = NoCall
       /\ UNCHANGED << startupVars, historyWin, repoVars >>
       /\ UNCHANGED << houses, history, worker_seq, house_seq, current_worker,
                       date_picker, houseUi, house_notes >>

\* _delete_worker, the confirmation answered yes
delete_worker ==
    \/ /\ worker_sel = 0
       /\ msg' = "Please select a worker to delete."
       /\ email_call' = NoCall
       /\ UNCHANGED << startupVars, historyWin, repoVars >>
       /\ UNCHANGED << dbVars, workerUi, date_picker, houseUi, house_notes >>
    \/ /\ worker_sel # 0
       /\ workers' = delete_worker_row(workers, workers_cache[worker_sel][1])
       /\ history' = history_after_delete(history, "worker_id",
                                          workers_cache[worker_sel][1])
       /\ current_worker' = NoWorker
       /\ refresh_workers(workers')
       /\ refresh_houses(schema, houses, history', date_picker)
       /\ msg' = NoMessage
       /\ email_call' = NoCall
       /\ UNCHANGED << startupVars, historyWin, repoVars >>
       /\ UNCHANGED << houses, worker_seq, house_seq, date_picker, house_notes >>

(***************************************************************************)
(* House handlers                                                          *)
(***************************************************************************)
\* _add_house with the dialog saved as name
add_house ==
    \E name \in HouseNames :
        /\ house_seq < MaxHouses
        /\ houses' = insert_house(houses, house_seq, name)
        /\ house_seq' = house_seq + 1
        /\ refresh_houses(schema, houses', history, date_picker)
        /\ msg' = NoMessage
        /\ email_call' = NoCall
        /\ UNCHANGED << startupVars, historyWin, repoVars >>
        /\ UNCHANGED << workers, history, worker_seq, workerUi, date_picker,
                        house_notes >>

\* _edit_house: a house picked in the list dialog, then renamed
edit_house ==
    \/ /\ DOMAIN houses = { }
       /\ msg' = "No houses found to edit."
       /\ email_call' = NoCall
       /\ UNCHANGED << startupVars, historyWin, repoVars >>
       /\ UNCHANGED << dbVars, workerUi, date_picker, houseUi, house_notes >>
    \/ \E id \in DOMAIN houses, name \in HouseNames :
        /\ houses' = update_house(houses, id, name)
        /\ refresh_houses(schema, houses', history, date_picker)
        /\ msg' = NoMessage
        /\ email_call' = NoCall
        /\ UNCHANGED << startupVars, historyWin, repoVars >>
        /\ UNCHANGED << workers, history, worker_seq, house_seq, workerUi,
                        date_picker, house_notes >>

\* _delete_house: a house picked in the list dialog, the confirmation
\* answered yes
delete_house ==
    \/ /\ DOMAIN houses = { }
       /\ msg' = "No houses found to delete."
       /\ email_call' = NoCall
       /\ UNCHANGED << startupVars, historyWin, repoVars >>
       /\ UNCHANGED << dbVars, workerUi, date_picker, houseUi, house_notes >>
    \/ \E id \in DOMAIN houses :
        /\ houses' = delete_house_row(houses, id)
        /\ history' = history_after_delete(history, "house_id", id)
        /\ refresh_houses(schema, houses', history', date_picker)
        /\ msg' = NoMessage
        /\ email_call' = NoCall
        /\ UNCHANGED << startupVars, historyWin, repoVars >>
        /\ UNCHANGED << workers, worker_seq, house_seq, workerUi, date_picker,
                        house_notes >>

\* <<DateEntrySelected>>: the picker takes the date d, then _refresh_houses
date_selected ==
    \E d \in Dates :
        /\ date_picker # NoDate
        /\ date_picker' = d
        /\ refresh_houses(schema, houses, history, d)
        /\ msg' = NoMessage
        /\ email_call' = NoCall
        /\ UNCHANGED << startupVars, historyWin, repoVars >>
        /\ UNCHANGED << dbVars, workerUi, house_notes >>

\* The check box of a listed house is clicked
toggle_house ==
    \E h \in DOMAIN house_vars :
        /\ house_vars' = [ house_vars EXCEPT ![h] = 1 - house_vars[h] ]
        /\ msg' = NoMessage
        /\ email_call' = NoCall
        /\ UNCHANGED << startupVars, historyWin, repoVars >>
        /\ UNCHANGED << dbVars, workerUi, date_picker, all_houses, house_frames,
                        house_qty, house_notes >>

\* The quantity box of a listed house is edited.  The Spinbox options
\* from_=1, to=999 bound its arrow buttons only; the entry is not validated,
\* so the IntVar holds whatever integer is typed.
set_quantity ==
    \E h \in DOMAIN house_qty, q \in Quantities :
        /\ house_qty' = [ house_qty EXCEPT ![h] = q ]
        /\ msg' = NoMessage
        /\ email_call' = NoCall
        /\ UNCHANGED << startupVars, historyWin, repoVars >>
        /\ UNCHANGED << dbVars, workerUi, date_picker, all_houses, house_frames,
                        house_vars, house_notes >>

\* _open_comment_window / save_comment for a listed house
save_comment ==
    \E h \in Range(house_frames), comment \in Notes :
        /\ house_notes' = [ k \in DOMAIN house_notes \cup { h } |->
                              IF k = h THEN comment ELSE house_notes[k] ]
        /\ msg' = NoMessage
        /\ email_call' = NoCall
        /\ UNCHANGED << startupVars, historyWin, repoVars >>
        /\ UNCHANGED << dbVars, workerUi, date_picker, houseUi >>

(***************************************************************************)
(* History view                                                            *)
(***************************************************************************)
\* datetime.strptime(assignment_date, '%Y-%m-%d').strftime('%d.%m.%Y'); a
\* value that does not parse is shown as it is
format_assignment_date(assignment_date) ==
    IF Len(assignment_date) = 3
    THEN << assignment_date[3], assignment_date[2], assignment_date[1] >>
    ELSE assignment_date

\* strptime(date_assigned, '%Y-%m-%d %H:%M:%S').strftime('%d.%m.%Y %H:%M'):
\* the seconds are dropped
format_date_assigned(date_assigned) == date_assigned \div 60

\* note or "": a NULL note is shown as the empty text
text_or_empty(note) == IF note = NullText THEN "" ELSE note

\* "Sent" if email_sent else "Pending"
status_label(email_sent) ==
    IF email_sent \notin { 0, NullFlag } THEN "Sent" ELSE "Pending"

\* FROM assignment_history a JOIN workers w ON a.worker_id = w.id
\*                           JOIN houses h ON a.house_id = h.id
joined_rows(w_tbl, h_tbl, hist) ==
    { i \in DOMAIN hist : /\ hist[i].worker_id \in DOMAIN w_tbl
                          /\ hist[i].house_id \in DOMAIN h_tbl }

\* One line of the tree view / of the export for row i of the table
history_line(w_tbl, h_tbl, hist, i) ==
    << w_tbl[hist[i].worker_id].name,
       h_tbl[hist[i].house_id],
       hist[i].quantity,
       text_or_empty(hist[i].note),
       format_assignment_date(hist[i].assignment_date),
       format_date_assigned(hist[i].date_assigned),
       status_label(hist[i].email_sent) >>

\* _load_history_data: the lists the query may produce.  ORDER BY
\* a.date_assigned DESC leaves rows of one timestamp in no specified order.
load_history_data(w_tbl, h_tbl, hist) ==
    LET J == joined_rows(w_tbl, h_tbl, hist)
        orders == { o \in [1..Cardinality(J) -> J] :
                      \A i, j \in 1..Cardinality(J) :
                          i < j => /\ o[i] # o[j]
                                   /\ hist[o[i]].date_assigned
                                        >= hist[o[j]].date_assigned }
    IN  { [ k \in DOMAIN o |-> history_line(w_tbl, h_tbl, hist, o[k]) ] :
          o \in orders }

\* The characters of the TEXT values the model uses
Chars(text) ==
    CASE text = "A"       -> << "A" >>
      [] text = "Ana"     -> << "A", "n", "a" >>
      [] text = "B"       -> << "B" >>
      [] text = "Bo"      -> << "B", "o" >>
      [] text = "late ok" -> << "l", "a", "t", "e", " ", "o", "k" >>
      [] OTHER            -> << >>

\* Mutant of lower: the text is compared as it is.
lower_unchanged(chars) == chars

\* str.lower() of a text given by its characters
lower(chars) ==
    LET lower_char(c) ==
            CASE c = "A" -> "a" [] c = "B" -> "b" [] c = "E" -> "e"
              [] c = "K" -> "k" [] c = "L" -> "l" [] c = "N" -> "n"
              [] c = "O" -> "o" [] c = "T" -> "t" [] c = "X" -> "x"
              [] OTHER -> c
    IN  [ i \in DOMAIN chars |-> lower_char(chars[i]) ]

\* Python's `sub in text` on character sequences
contains(sub, text) ==
    \E k \in 0..(Len(text) - Len(sub)) :
        \A i \in 1..Len(sub) : text[k + i] = sub[i]

\* Mutant of fetch_history: the rows come back in id order.
fetch_history_by_id(w_tbl, h_tbl, hist) ==
    LET J == joined_rows(w_tbl, h_tbl, hist)
    IN  { o \in [1..Cardinality(J) -> J] :
            \A i, j \in 1..Cardinality(J) : i < j => o[i] < o[j] }

\* The SELECT of _apply_history_filter and of _export_history, as the ids of
\* the rows it returns: ORDER BY a.date_assigned DESC, rows of one timestamp
\* in no specified order
fetch_history(w_tbl, h_tbl, hist) ==
    LET J == joined_rows(w_tbl, h_tbl, hist)
    IN  { o \in [1..Cardinality(J) -> J] :
            \A i, j \in 1..Cardinality(J) :
                i < j => /\ o[i] # o[j]
                         /\ hist[o[i]].date_assigned >= hist[o[j]].date_assigned }

\* _apply_history_filter: the lines the tree may be refilled with
apply_history_filter(w_tbl, h_tbl, hist, filter_text) ==
    LET text == lower(filter_text)
        keep(i) ==
            \/ contains(text, lower(Chars(w_tbl[hist[i].worker_id].name)))
            \/ contains(text, lower(Chars(h_tbl[hist[i].house_id])))
            \/ contains(text, lower(Chars(text_or_empty(hist[i].note))))
    IN  { [ k \in DOMAIN SelectSeq(o, keep) |->
              history_line(w_tbl, h_tbl, hist, SelectSeq(o, keep)[k]) ] :
          o \in fetch_history(w_tbl, h_tbl, hist) }

CsvHeader == << "Worker", "House", "Quantity", "Note", "Assignment Date",
                "Record Date", "Status" >>

\* _export_history: the files it may write, the header and one row per row
\* of the query
export_history_rows(w_tbl, h_tbl, hist) ==
    { << CsvHeader >> \o [ k \in DOMAIN o |->
                             history_line(w_tbl, h_tbl, hist, o[k]) ] :
      o \in fetch_history(w_tbl, h_tbl, hist) }

MsgExported == "Data exported successfully to: history.csv"
MsgExportFailed == "Export failed: PermissionError"

\* _show_history: a history window is opened, its tree filled by
\* _load_history_data and its filter entry empty
show_history ==
    /\ tree' \in load_history_data(workers, houses, history)
    /\ filter_var' = << >>
    /\ msg' = NoMessage
    /\ UNCHANGED << dbVars, workerUi, date_picker, houseUi, house_notes,
                    email_call, startupVars, csvfile, repoVars >>

\* The filter entry is edited: the trace on filter_var calls
\* _apply_history_filter with the new text
apply_filter ==
    \E text \in FilterTexts :
        /\ filter_var # NoFilter
        /\ filter_var' = text
        /\ tree' \in apply_history_filter(workers, houses, history, text)
        /\ msg' = NoMessage
        /\ UNCHANGED << dbVars, workerUi, date_picker, houseUi, house_notes,
                        email_call, startupVars, csvfile, repoVars >>

\* "Export to CSV": the file dialog is cancelled, or the file is written, or
\* opening the file raises
export_history ==
    /\ filter_var # NoFilter
    /\ \/ /\ msg' = NoMessage
          /\ csvfile' = csvfile
       \/ /\ csvfile' \in export_history_rows(workers, houses, history)
          /\ msg' = MsgExported
       \/ /\ msg' = MsgExportFailed
          /\ csvfile' = csvfile
    /\ UNCHANGED << dbVars, workerUi, date_picker, houseUi, house_notes,
                    email_call, startupVars, tree, filter_var, repoVars >>

(***************************************************************************)
(* Send Assignments                                                        *)
(***************************************************************************)
\* The (house_id, qty, note) of every checked house, in the order of the
\* house_vars dictionary
selected_houses(frames, h_vars, h_qty, h_notes) ==
    LET checked(h) == h_vars[h] = 1
        ids == SelectSeq(frames, checked)
    IN  [ i \in DOMAIN ids |->
            << ids[i], h_qty[ids[i]],
               IF ids[i] \in DOMAIN h_notes THEN h_notes[ids[i]] ELSE "" >> ]

\* Mutant of prepare_assignment_data: the notes are left out.
prepare_assignment_data_no_notes(selected, all_h) ==
    [ i \in DOMAIN selected |->
        [ house_name |-> all_h[CHOOSE j \in DOMAIN all_h :
                                  all_h[j][1] = selected[i][1]][2],
          quantity   |-> selected[i][2],
          note       |-> "" ] ]

\* _prepare_assignment_data: the house names come from all_houses
prepare_assignment_data(selected, all_h) ==
    LET house_name(id) ==
            IF \E i \in DOMAIN all_h : all_h[i][1] = id
            THEN all_h[CHOOSE i \in DOMAIN all_h : all_h[i][1] = id][2]
            ELSE << "House-", id >>
    IN  [ i \in DOMAIN selected |->
            [ house_name |-> house_name(selected[i][1]),
              quantity   |-> selected[i][2],
              note       |-> selected[i][3] ] ]

\* Mutant of save_assignments_to_db: the loop stops after the first house.
save_assignments_first_only(hist, worker_id, selected, assignment_date, clock, k) ==
    hist \o [ i \in 1..(IF k > 1 THEN 1 ELSE k) |->
                insert_assignment(<< >>, worker_id, selected[i],
                                  assignment_date, clock[i])[1] ]

\* _save_assignments_to_db as far as its first k inserts: one execute, that
\* is one committed transaction, per selected house
save_assignments_to_db(hist, worker_id, selected, assignment_date, clock, k) ==
    hist \o [ i \in 1..k |->
                insert_assignment(<< >>, worker_id, selected[i],
                                  assignment_date, clock[i])[1] ]

MsgSelectWorker == "Please select a worker."
MsgSelectHouse == "Please select at least one house."
MsgNoDatePicker == "Date picker not available. Please install tkcalendar."
MsgSuccess == "Assignments sent successfully!"
MsgFailedStorage == "Failed to send assignments: sqlite3.Error"
MsgFailedEmail == "Failed to send assignments: smtplib.SMTPException"

\* Mutant of show_failure: the form is cleared as after a successful send.
show_failure_and_clear(text) ==
    /\ msg' = text
    /\ house_notes' = EmptyDict
    /\ house_vars' = [ h \in DOMAIN house_vars |-> 0 ]
    /\ house_qty' = [ h \in DOMAIN house_qty |-> 1 ]
    /\ UNCHANGED << workerUi, date_picker, all_houses, house_frames >>

\* except Exception as e: messagebox.showerror(...): the handler returns
\* with the worker, the form and the date as they were
show_failure(text) ==
    /\ msg' = text
    /\ UNCHANGED << workerUi, date_picker, houseUi, house_notes >>

\* Mutant of send_not_reached: the e-mail is sent before the batch is saved,
\* so the call is made although an insert raises afterwards.
send_before_save(call) == email_call' = call

\* An insert raises inside the try block: control leaves
\* _save_assignments_to_db for the except clause, and send_assignment_email,
\* the statement after it, is not reached.
send_not_reached(call) == email_call' = NoCall

\* _send_assignments.  An insert of the batch fails with a storage error or
\* all succeed; then the e-mail is sent or the send raises.
send_assignments ==
    LET selected == selected_houses(house_frames, house_vars, house_qty,
                                    house_notes)
        n == Len(selected)
    IN
    \/ /\ current_worker = NoWorker
       /\ msg' = MsgSelectWorker
       /\ email_call' = NoCall
       /\ UNCHANGED << startupVars, historyWin, repoVars >>
       /\ UNCHANGED << dbVars, workerUi, date_picker, houseUi, house_notes >>
    \/ /\ current_worker # NoWorker
       /\ n = 0
       /\ msg' = MsgSelectHouse
       /\ email_call' = NoCall
       /\ UNCHANGED << startupVars, historyWin, repoVars >>
       /\ UNCHANGED << dbVars, workerUi, date_picker, houseUi, house_notes >>
    \/ /\ current_worker # NoWorker
       /\ n > 0
       /\ date_picker = NoDate
       /\ msg' = MsgNoDatePicker
       /\ email_call' = NoCall
       /\ UNCHANGED << startupVars, historyWin, repoVars >>
       /\ UNCHANGED << dbVars, workerUi, date_picker, houseUi, house_notes >>
    \/ /\ current_worker # NoWorker
       /\ n > 0
       /\ date_picker # NoDate
       /\ LET assignment_date == strftime_iso(date_picker)
              date_formatted  == strftime_dmy(date_picker)
              worker_id       == current_worker[1]
              worker_name     == current_worker[2]
              worker_email    == current_worker[3]
              assignments     == prepare_assignment_data(selected, all_houses)
              call == [ to_email        |-> worker_email,
                        worker_name     |-> worker_name,
                        assignments     |-> assignments,
                        assignment_date |-> date_formatted ]
          IN
          \* the insert of selection k + 1 raises; the first one does when
          \* the table lacks a column the INSERT names
          \/ \E k \in 0..(n - 1) :
               /\ history_columns_exist(schema) \/ k = 0
               /\ Len(history) + k <= MaxHistory
               /\ \E clock \in ClockReadings(history, k) :
                    history' = save_assignments_to_db(history, worker_id,
                                   selected, assignment_date, clock, k)
               /\ show_failure(MsgFailedStorage)
               /\ send_not_reached(call)
               /\ UNCHANGED << startupVars, historyWin, repoVars >>
               /\ UNCHANGED << workers, houses, worker_seq, house_seq >>
          \* every insert succeeds, the send raises
          \/ /\ history_columns_exist(schema)
             /\ Len(history) + n <= MaxHistory
             /\ \E clock \in ClockReadings(history, n) :
                  history' = save_assignments_to_db(history, worker_id,
                                 selected, assignment_date, clock, n)
             /\ email_call' = call
             /\ show_failure(MsgFailedEmail)
             /\ UNCHANGED << startupVars, historyWin, repoVars >>
             /\ UNCHANGED << workers, houses, worker_seq, house_seq >>
          \* every insert succeeds, the e-mail is sent
          \/ /\ history_columns_exist(schema)
             /\ Len(history) + n <= MaxHistory
             /\ \E clock \in ClockReadings(history, n) :
                  history' = save_assignments_to_db(history, worker_id,
                                 selected, assignment_date, clock, n)
             /\ email_call' = call
             /\ msg' = MsgSuccess
             /\ house_notes' = EmptyDict
             /\ refresh_houses(schema, houses, history', date_picker)
             /\ UNCHANGED << startupVars, historyWin, repoVars >>
             /\ UNCHANGED << workers, houses, worker_seq, house_seq, workerUi,
                             date_picker >>

Next ==
    \/ add_worker
    \/ on_worker_select
    \/ unselect_worker
    \/ edit_worker
    \/ delete_worker
    \/ add_house
    \/ edit_house
    \/ delete_house
    \/ date_selected
    \/ toggle_house
    \/ send_assignments

Spec == Init /\ [][Next]_vars

(***************************************************************************)
(* The form of one session: the application is started on a store that     *)
(* already holds a worker and two houses, and the user selects, fills in   *)
(* quantities and comments, and sends.                                     *)
(***************************************************************************)
InitForm ==
    /\ workers = [ id \in { 1 } |-> [name |-> "Ana", email |-> "ana@x.com"] ]
    /\ houses = [ id \in { 1, 2 } |-> IF id = 1 THEN "A" ELSE "B" ]
    /\ history = << >>
    /\ worker_seq = 1
    /\ house_seq = 2
    /\ workers_cache = << << 1, "Ana", "ana@x.com" >> >>
    /\ worker_sel = 0
    /\ current_worker = NoWorker
    /\ date_picker \in { Tomorrow, NoDate }
    /\ all_houses = << << 1, "A" >>, << 2, "B" >> >>
    /\ house_frames = << 1, 2 >>
    /\ house_vars = [ h \in { 1, 2 } |-> 0 ]
    /\ house_qty = [ h \in { 1, 2 } |-> 1 ]
    /\ house_notes = EmptyDict
    /\ msg = NoMessage
    /\ email_call = NoCall
    /\ schema = MigratedSchema
    /\ init_log = << << PrintedOk >> >>
    /\ process = "mainloop"
    /\ tree = << >>
    /\ filter_var = NoFilter
    /\ csvfile = << >>
    /\ open_connections = 0
    /\ returned = NoResult

NextForm ==
    \/ on_worker_select
    \/ unselect_worker
    \/ toggle_house
    \/ set_quantity
    \/ save_comment
    \/ send_assignments

SpecForm == InitForm /\ [][NextForm]_vars

(***************************************************************************)
(* The schema store alone: initialize_database runs, up to MaxInitRuns     *)
(* times, on a store that is fresh or was written by an earlier version,   *)
(* and between two runs a session may record an assignment.                *)
(***************************************************************************)
\* The column sets of assignment_history an initialization may find
StoredColumnSets ==
    { HistoryColumns \cup extra : extra \in SUBSET { "assignment_date",
                                                     "email_sent" } }

StoredDates == { NullDate } \cup { strftime_iso(d) : d \in Dates }
StoredFlags == { 0, 1, NullFlag }

\* The rows a table with these columns may hold
StoredRows(columns) ==
    IF { "assignment_date", "email_sent" } \subseteq columns
    THEN [ worker_id : { 1 }, house_id : { 1 }, quantity : { 1 },
           note : { "" }, date_assigned : Timestamps,
           assignment_date : StoredDates, email_sent : StoredFlags ]
    ELSE IF "assignment_date" \in columns
    THEN [ worker_id : { 1 }, house_id : { 1 }, quantity : { 1 },
           note : { "" }, date_assigned : Timestamps,
           assignment_date : StoredDates ]
    ELSE IF "email_sent" \in columns
    THEN [ worker_id : { 1 }, house_id : { 1 }, quantity : { 1 },
           note : { "" }, date_assigned : Timestamps,
           email_sent : StoredFlags ]
    ELSE [ worker_id : { 1 }, house_id : { 1 }, quantity : { 1 },
           note : { "" }, date_assigned : Timestamps ]

StoredHistories(columns) ==
    UNION { [ 1..n -> StoredRows(columns) ] : n \in 0..MaxStoredRows }

\* The session fields before TaskMeisterApp is constructed
NotConstructed ==
    /\ workers_cache = << >>
    /\ worker_sel = 0
    /\ current_worker = NoWorker
    /\ date_picker = NoDate
    /\ all_houses = << >>
    /\ house_frames = << >>
    /\ house_vars = [ h \in { } |-> 0 ]
    /\ house_qty = [ h \in { } |-> 1 ]
    /\ house_notes = EmptyDict
    /\ msg = NoMessage
    /\ email_call = NoCall
    /\ init_log = << >>
    /\ process = "not started"
    /\ tree = << >>
    /\ filter_var = NoFilter
    /\ csvfile = << >>
    /\ open_connections = 0
    /\ returned = NoResult

InitMigrate ==
    /\ \/ /\ schema = NoTables
          /\ history = << >>
          /\ workers = [ id \in { } |-> [name |-> "", email |-> ""] ]
          /\ houses = [ id \in { } |-> "" ]
          /\ worker_seq = 0
          /\ house_seq = 0
       \/ /\ \E columns \in StoredColumnSets :
               /\ schema = [ MigratedSchema EXCEPT
                               !["assignment_history"] = columns ]
               /\ history \in StoredHistories(columns)
          /\ workers = [ id \in { 1 } |-> [name |-> "Ana", email |-> "ana@x.com"] ]
          /\ houses = [ id \in { 1 } |-> "A" ]
          /\ worker_seq = 1
          /\ house_seq = 1
    /\ NotConstructed

\* DatabaseManager.__init__: initialize_database runs on the store
initialize_database ==
    /\ Len(init_log) < MaxInitRuns
    /\ \E out \in initialize_database_outcomes(
                      [ schema |-> schema, history |-> history ]) :
         /\ schema' = out.store.schema
         /\ history' = out.store.history
         /\ init_log' = Append(init_log, out.printed)
    /\ UNCHANGED << workers, houses, worker_seq, house_seq, workerUi,
                    date_picker, houseUi, house_notes, msg, email_call,
                    process, historyWin, repoVars >>

\* Between two runs a session on the initialized store saves a batch of one
\* house (_save_assignments_to_db)
save_between_runs ==
    /\ init_log # << >>
    /\ history_columns_exist(schema)
    /\ Len(history) < MaxStoredRows
    /\ \E w \in DOMAIN workers, h \in DOMAIN houses, d \in Dates,
          ts \in Timestamps :
         history' = insert_assignment(history, w, << h, 1, "" >>,
                                      strftime_iso(d), ts)
    /\ UNCHANGED << workers, houses, worker_seq, house_seq, workerUi,
                    date_picker, houseUi, house_notes, msg, email_call,
                    startupVars, historyWin, repoVars >>

NextMigrate ==
    \/ initialize_database
    \/ save_between_runs

SpecMigrate == InitMigrate /\ [][NextMigrate]_vars

(***************************************************************************)
(* Startup: main() constructs TaskMeisterApp on a store that is fresh or   *)
(* was written by an earlier version, and the session then serves the      *)
(* handlers on whatever the initialization left.                           *)
(***************************************************************************)
MsgFailedToStart == "Application failed to start: sqlite3.OperationalError"

InitStartup ==
    /\ InitMigrate
    /\ Len(history) <= 1

\* main: TaskMeisterApp.__init__ runs initialize_database, which returns
\* normally whether it committed or failed, builds the window (with the date
\* picker on tomorrow when tkcalendar is installed) and loads the worker and
\* house lists.  A SELECT on a missing workers or houses table raises out of
\* __init__ and main reports that the application failed to start.
start_application ==
    /\ process = "not started"
    /\ \E out \in initialize_database_outcomes(
                      [ schema |-> schema, history |-> history ]),
          picker \in { Tomorrow, NoDate } :
         /\ schema' = out.store.schema
         /\ history' = out.store.history
         /\ init_log' = Append(init_log, out.printed)
         /\ date_picker' = picker
         /\ IF "workers" \notin DOMAIN out.store.schema
            THEN /\ process' = "failed to start"
                 /\ msg' = MsgFailedToStart
                 /\ UNCHANGED << workers_cache, worker_sel, houseUi >>
            ELSE IF "houses" \notin DOMAIN out.store.schema
            THEN /\ refresh_workers(workers)
                 /\ process' = "failed to start"
                 /\ msg' = MsgFailedToStart
                 /\ UNCHANGED houseUi
            ELSE /\ refresh_workers(workers)
                 /\ refresh_houses(out.store.schema, houses,
                                   out.store.history, picker)
                 /\ process' = "mainloop"
                 /\ msg' = NoMessage
    /\ UNCHANGED << workers, houses, worker_seq, house_seq, current_worker,
                    house_notes, email_call, historyWin, repoVars >>

NextStartup ==
    \/ start_application
    \/ process = "mainloop" /\ add_worker
    \/ process = "mainloop" /\ add_house
    \/ process = "mainloop" /\ on_worker_select
    \/ process = "mainloop" /\ toggle_house
    \/ process = "mainloop" /\ send_assignments

SpecStartup == InitStartup /\ [][NextStartup]_vars

(***************************************************************************)
(* The history window of a session on a store that holds a worker, two     *)
(* houses and up to MaxStoredRows assignment records.                      *)
(***************************************************************************)
HistoryRows ==
    [ worker_id : { 1 }, house_id : { 1, 2 }, quantity : { 1 },
      note : { "late ok", NullText }, date_assigned : Timestamps,
      assignment_date : { strftime_iso(d) : d \in Dates },
      email_sent : { 0, 1 } ]

InitHistory ==
    /\ workers = [ id \in { 1 } |-> [name |-> "Ana", email |-> "ana@x.com"] ]
    /\ houses = [ id \in { 1, 2 } |-> IF id = 1 THEN "A" ELSE "B" ]
    /\ history \in UNION { [ 1..n -> HistoryRows ] : n \in 0..MaxStoredRows }
    /\ worker_seq = 1
    /\ house_seq = 2
    /\ workers_cache = << << 1, "Ana", "ana@x.com" >> >>
    /\ worker_sel = 0
    /\ current_worker = NoWorker
    /\ date_picker = NoDate
    /\ all_houses = << << 1, "A" >>, << 2, "B" >> >>
    /\ house_frames = << 1, 2 >>
    /\ house_vars = [ h \in { 1, 2 } |-> 0 ]
    /\ house_qty = [ h \in { 1, 2 } |-> 1 ]
    /\ house_notes = EmptyDict
    /\ msg = NoMessage
    /\ email_call = NoCall
    /\ schema = MigratedSchema
    /\ init_log = << << PrintedOk >> >>
    /\ process = "mainloop"
    /\ tree = << >>
    /\ filter_var = NoFilter
    /\ csvfile = << >>
    /\ open_connections = 0
    /\ returned = NoResult

NextHistory ==
    \/ show_history
    \/ apply_filter
    \/ export_history

SpecHistory == InitHistory /\ [][NextHistory]_vars

(***************************************************************************)
(* The Repository alone: DatabaseManager.fetch_all and                     *)
(* DatabaseManager.execute on a fresh, initialized store, each call with   *)
(* the statement at which it raises, if it does.                           *)
(***************************************************************************)
\* Where a call raises: nowhere, in sqlite3.connect, in cursor.execute, or in
\* the statement after it (cursor.fetchall of fetch_all, conn.commit of
\* execute)
CallFaults == { "none", "connect", "execute", "after execute" }

\* conn = sqlite3.connect(self.db_path): one more open connection
connect(open) == open + 1

\* Mutant of finally_close: conn.close() is the last statement of the try
\* block, so it is skipped when a statement before it raises.
close_on_return(open, raised) == IF raised THEN open ELSE open - 1

\* finally: conn.close(), whether the try block raised or not
finally_close(open, raised) == open - 1

\* DatabaseManager.fetch_all for a SELECT that yields `rows`; `open` is the
\* number of connections open when it is called.  sqlite3.connect stands
\* before the try block: when it raises there is no connection to close.
fetch_all(open, rows, fault) ==
    IF fault = "connect"
    THEN [ open |-> open,
           returned |-> [ call |-> "fetch_all", raised |-> TRUE,
                          rows |-> << >> ] ]
    ELSE LET conn == connect(open)
             raised == fault # "none"
         IN  [ open |-> finally_close(conn, raised),
               returned |-> [ call |-> "fetch_all", raised |-> raised,
                              rows |-> IF raised THEN << >> ELSE rows ] ]

\* DatabaseManager.execute for a statement that turns the tables `before`
\* into `after`: they are stored by conn.commit(); a connection closed before
\* its commit loses what it wrote.
execute(open, before, after, fault) ==
    IF fault = "connect"
    THEN [ open |-> open, tables |-> before,
           returned |-> [ call |-> "execute", raised |-> TRUE,
                          rows |-> << >> ] ]
    ELSE LET conn == connect(open)
             raised == fault # "none"
         IN  [ open |-> finally_close(conn, raised),
               tables |-> IF raised THEN before ELSE after,
               returned |-> [ call |-> "execute", raised |-> raised,
                              rows |-> << >> ] ]

\* The tables an INSERT or DELETE of the handlers writes, with their
\* sqlite_sequence entries
StoredTables ==
    [ workers |-> workers, worker_seq |-> worker_seq,
      houses |-> houses, house_seq |-> house_seq ]

\* The statements the handlers pass to execute on workers and houses, each
\* as the tables it leaves
Mutations ==
    { [ StoredTables EXCEPT
          !.workers = insert_worker(workers, worker_seq, in[1], in[2]),
          !.worker_seq = worker_seq + 1 ] :
        in \in { w \in WorkerInputs : worker_seq < MaxWorkers } }
    \cup { [ StoredTables EXCEPT !.workers = delete_worker_row(workers, id) ] :
             id \in DOMAIN workers }
    \cup { [ StoredTables EXCEPT
               !.houses = insert_house(houses, house_seq, name),
               !.house_seq = house_seq + 1 ] :
             name \in { h \in HouseNames : house_seq < MaxHouses } }
    \cup { [ StoredTables EXCEPT !.houses = delete_house_row(houses, id) ] :
             id \in DOMAIN houses }

\* A caller reads the workers or the houses through fetch_all
fetch_all_call ==
    \E rows \in fetch_workers(workers) \cup fetch_houses(houses),
       fault \in CallFaults :
        LET res == fetch_all(open_connections, rows, fault)
        IN  /\ open_connections' = res.open
            /\ returned' = res.returned
            /\ UNCHANGED << dbVars, workerUi, date_picker, houseUi, house_notes,
                            msg, email_call, startupVars, historyWin >>

\* A caller writes a worker or a house through execute
execute_call ==
    \E after \in Mutations, fault \in CallFaults :
        LET res == execute(open_connections, StoredTables, after, fault)
        IN  /\ open_connections' = res.open
            /\ returned' = res.returned
            /\ workers' = res.tables.workers
            /\ worker_seq' = res.tables.worker_seq
            /\ houses' = res.tables.houses
            /\ house_seq' = res.tables.house_seq
            /\ UNCHANGED << history, workerUi, date_picker, houseUi,
                            house_notes, msg, email_call, startupVars,
                            historyWin >>

NextRepository ==
    \/ fetch_all_call
    \/ execute_call

SpecRepository == Init /\ [][NextRepository]_vars

(***************************************************************************)
(* The roster of a session on a fresh store: up to MaxRoster workers and   *)
(* MaxHouses houses are added and deleted while assignments are sent.      *)
(***************************************************************************)
NextRoster ==
    \/ add_worker_within(MaxRoster)
    \/ on_worker_select
    \/ delete_worker
    \/ add_house
    \/ delete_house
    \/ toggle_house
    \/ send_assignments

SpecRoster == Init /\ [][NextRoster]_vars

(***************************************************************************)
(* Properties                                                              *)
(***************************************************************************)
Delivered(r) == r.email_sent = 1

\* The ids of the houses a list of (id, name) rows holds
HouseIds(rows) == { rows[i][1] : i \in DOMAIN rows }

\* C1: double-booking guard: assignment_history never holds two rows with
\* email_sent = 1 for the same (house_id, assignment_date).
C1_NoDoubleBooking ==
    \A i, j \in DOMAIN history :
        ( /\ i < j
          /\ history[i].house_id = history[j].house_id
          /\ history[i].assignment_date = history[j].assignment_date )
        => ~ ( Delivered(history[i]) /\ Delivered(history[j]) )

\* C2: for every date D, the available-house list computed on the store is
\* exactly the rows of houses, in ascending name order, whose id has no row
\* with assignment_date = D and email_sent = 1.
C2_AvailabilityExact ==
    \A D \in Dates :
        \A res \in refresh_results(schema, houses, history, D) :
            LET avail == res.avail
            IN  /\ HouseIds(avail) =
                     { h \in DOMAIN houses :
                         ~ \E i \in DOMAIN history :
                             /\ history[i].house_id = h
                             /\ history[i].assignment_date = strftime_iso(D)
                             /\ Delivered(history[i]) }
                /\ \A i \in DOMAIN avail :
                     /\ avail[i][1] \in DOMAIN houses
                     /\ avail[i][2] = houses[avail[i][1]]
                /\ \A i, j \in DOMAIN avail :
                     i < j => /\ avail[i][1] # avail[j][1]
                              /\ TextRank(avail[i][2]) <= TextRank(avail[j][2])

\* C2 witness: the list on screen was computed for the picker's date from the
\* store as it is; it shows, after another house, a house whose delivered
\* rows are all for another date, and it hides a house delivered for the date.
C2_Witness ==
    /\ date_picker # NoDate
    /\ msg = NoMessage
    /\ \E res \in refresh_results(schema, houses, history, date_picker) :
         /\ all_houses = res.rows
         /\ house_frames = [ i \in DOMAIN res.avail |-> res.avail[i][1] ]
    /\ Len(house_frames) = 1
    /\ \E i \in DOMAIN history :
         /\ history[i].house_id = house_frames[1]
         /\ Delivered(history[i])
         /\ history[i].assignment_date # strftime_iso(date_picker)
    /\ \E h \in DOMAIN houses \ Range(house_frames) :
         \E i \in DOMAIN history :
            /\ history[i].house_id = h
            /\ Delivered(history[i])
            /\ history[i].assignment_date = strftime_iso(date_picker)

\* C3: every record is inserted Pending (email_sent = 0) and is Delivered
\* only when the notification of its batch has succeeded: a step leaves a
\* new record delivered only if it reports the send as successful, and no
\* record turns delivered otherwise.
C3_PendingUntilDelivered ==
    [][ \A i \in DOMAIN history' :
          Delivered(history'[i]) =>
             \/ msg' = MsgSuccess /\ i \notin DOMAIN history
             \/ i \in DOMAIN history /\ Delivered(history[i]) ]_vars

\* C4: after a commit whose notification failed, every house of the batch is
\* still available for the date of the commit.
C4_FailedBatchStaysAvailable ==
    msg = MsgFailedEmail =>
        \A res \in refresh_results(schema, houses, history, date_picker) :
            \A h \in DOMAIN house_vars :
                house_vars[h] = 1 => h \in HouseIds(res.avail)

\* The selections a Send Assignments would read from the form
FormSelection ==
    selected_houses(house_frames, house_vars, house_qty, house_notes)

\* C5: a commit with no worker selected, with no house selected or with a
\* selected quantity < 1 inserts no row and sends no notification.
C5_InvalidCommitRejected ==
    [][ ( \/ current_worker = NoWorker
          \/ FormSelection = << >>
          \/ \E k \in DOMAIN FormSelection : FormSelection[k][2] < 1 )
        => ( history' = history /\ email_call' = NoCall ) ]_vars

\* A line of the history list without its record date
LineWithoutRecordDate(x) == << x[1], x[2], x[3], x[4], x[5], x[7] >>

\* How often the line y (without record date) occurs in the list L
Occurrences(L, y) ==
    Cardinality({ i \in DOMAIN L : LineWithoutRecordDate(L[i]) = y })

\* C6: after a successful commit of n houses for date D the availability
\* list for D excludes the n houses, and the unfiltered history list holds
\* exactly n more lines, one per selected house, each with status Sent.
C6_SuccessfulCommit ==
    [][ msg' = MsgSuccess =>
        LET sel   == FormSelection
            n     == Len(sel)
            batch == { sel[k][1] : k \in 1..n }
            line(k) == << workers[current_worker[1]].name,
                          houses[sel[k][1]],
                          sel[k][2],
                          sel[k][3],
                          strftime_dmy(date_picker),
                          "Sent" >>
        IN  /\ \A res \in refresh_results(schema', houses', history',
                                             date_picker') :
                 HouseIds(res.avail) \cap batch = { }
            /\ Range(house_frames') \cap batch = { }
            /\ \A L1 \in load_history_data(workers, houses, history) :
                 \A L2 \in load_history_data(workers', houses', history') :
                    /\ Len(L2) = Len(L1) + n
                    /\ \A x \in Range(L2) :
                         Occurrences(L2, LineWithoutRecordDate(x)) =
                           Occurrences(L1, LineWithoutRecordDate(x))
                           + Cardinality({ k \in 1..n :
                                 line(k) = LineWithoutRecordDate(x) })
      ]_vars

\* C6 witness: a batch of two houses was just sent successfully.
C6_Witness ==
    /\ msg = MsgSuccess
    /\ Len(email_call.assignments) = 2
    /\ Len(history) = 2
    /\ history[1].house_id # history[2].house_id
    /\ house_frames = << >>

\* C7: append-only audit log: no step changes or removes a row of
\* assignment_history.
C7_AppendOnly ==
    [][ /\ Len(history') >= Len(history)
        /\ \A i \in DOMAIN history : history'[i] = history[i] ]_vars

\* C7 witness: a row whose worker and whose house have both been deleted.
C7_Witness ==
    \E i \in DOMAIN history :
        /\ history[i].worker_id \notin DOMAIN workers
        /\ history[i].worker_id <= worker_seq
        /\ history[i].house_id \notin DOMAIN houses

\* C8: the unfiltered history list holds one line for every row of
\* assignment_history, also for rows whose worker or house was deleted.
C8_ListShowsEveryRow ==
    \A L \in load_history_data(workers, houses, history) :
        Len(L) = Len(history)

\* C9: if an insert of a batch fails with a storage error, none of the
\* batch's rows is persisted.
C9_BatchIsAUnit ==
    [][ msg' = MsgFailedStorage => history' = history ]_vars

\* C10: when the notification fails after the inserts, the failure is
\* reported and the store holds exactly the n rows of the batch in addition
\* to the rows it held before.
C10_FailedSendKeepsRows ==
    [][ ( email_call' # NoCall /\ msg' # MsgSuccess ) =>
        LET sel == FormSelection
            n   == Len(sel)
        IN  /\ msg' = MsgFailedEmail
            /\ Len(history') = Len(history) + n
            /\ \A i \in DOMAIN history : history'[i] = history[i]
            /\ \A k \in 1..n :
                 LET r == history'[Len(history) + k]
                 IN  /\ r.worker_id = current_worker[1]
                     /\ r.house_id = sel[k][1]
                     /\ r.quantity = sel[k][2]
                     /\ r.note = sel[k][3]
                     /\ r.assignment_date = strftime_iso(date_picker)
      ]_vars

\* C10 witness: the send of a batch of two houses has just failed and the two
\* rows are in the table.
C10_Witness ==
    /\ msg = MsgFailedEmail
    /\ Len(email_call.assignments) = 2
    /\ Len(history) = 2
    /\ history[1].house_id # history[2].house_id
    /\ \A h \in DOMAIN house_vars : house_vars[h] = 1

\* C11: a commit that passes validation and whose inserts all succeed calls
\* send_assignment_email exactly once (no other step calls it), with the
\* e-mail address of the commit's worker, the date as DD.MM.YYYY and one entry
\* (house name, quantity, note) per selected house in selection order; when
\* the send succeeds the table holds the batch's n new rows and nothing else
\* of it has changed.
C11_NotifiedOnceWithBatch ==
    [][ LET sel == FormSelection
            n   == Len(sel)
        IN  /\ email_call' # NoCall <=> msg' \in { MsgSuccess, MsgFailedEmail }
            /\ msg' \in { MsgSuccess, MsgFailedEmail } =>
                 /\ email_call'.to_email = current_worker[3]
                 /\ email_call'.assignment_date =
                      << date_picker.day, date_picker.month, date_picker.year >>
                 /\ Len(email_call'.assignments) = n
                 /\ \A k \in 1..n :
                      email_call'.assignments[k] =
                        [ house_name |-> houses[sel[k][1]],
                          quantity   |-> sel[k][2],
                          note       |-> sel[k][3] ]
            /\ msg' = MsgSuccess =>
                 /\ Len(history') = Len(history) + n
                 /\ \A i \in DOMAIN history : history'[i] = history[i]
                 /\ \A k \in 1..n :
                      /\ history'[Len(history) + k].house_id = sel[k][1]
                      /\ history'[Len(history) + k].email_sent = 1
      ]_vars

\* C11 witness: a batch of two houses with different quantities, the second
\* with a note, has just been sent successfully.
C11_Witness ==
    /\ msg = MsgSuccess
    /\ Len(email_call.assignments) = 2
    /\ email_call.assignments[1].house_name = "A"
    /\ email_call.assignments[1].quantity # email_call.assignments[2].quantity
    /\ email_call.assignments[1].note = ""
    /\ email_call.assignments[2].note = "late ok"
    /\ email_call.to_email = "ana@x.com"
    /\ email_call.assignment_date = << 1, 5, 2024 >>

\* The last run of initialize_database in the step, if the step is one
LastRun(log) == log[Len(log)]

\* C12: migration is idempotent: a run of initialize_database on a store that
\* an earlier run has initialized changes no table's columns and no row of
\* any table, whatever the store was before that earlier run.
C12_MigrationIdempotent ==
    [][ ( /\ init_log' # init_log
          /\ \E r \in DOMAIN init_log : initialized_ok(init_log[r]) )
        => /\ schema' = schema
           /\ history' = history
           /\ workers' = workers
           /\ houses' = houses ]_vars

\* C12 witness: the store was legacy with a row, was migrated by a first run,
\* a session added a row for another date than its creation date, and a
\* second and a third run were committed.
C12_Witness ==
    /\ Len(init_log) = 3
    /\ Len(init_log[1]) = 3
    /\ \A r \in 1..3 : initialized_ok(init_log[r])
    /\ Len(history) = 2
    /\ history[2].assignment_date # DATE(history[2].date_assigned)

\* C13: a committed initialization of a table that lacks both columns gives
\* every row it held the date component of its date_assigned as
\* assignment_date, and email_sent = 1.
C13_LegacyBackfill ==
    [][ ( /\ init_log' # init_log
          /\ initialized_ok(LastRun(init_log'))
          /\ "assignment_history" \in DOMAIN schema
          /\ schema["assignment_history"] = HistoryColumns )
        => /\ Len(history') = Len(history)
           /\ \A i \in DOMAIN history :
                /\ history'[i].email_sent = 1
                /\ \E d \in 0..30 :
                     /\ d * SecondsPerDay <= history[i].date_assigned
                     /\ history[i].date_assigned < (d + 1) * SecondsPerDay
                     /\ history'[i].assignment_date = << 2024, 5, 1 + d >>
      ]_vars

\* C13 witness: one run added and backfilled both columns of a table with
\* two rows created on different days.
C13_Witness ==
    /\ init_log = << << "Added assignment_date column.",
                       "Added email_sent column.", PrintedOk >> >>
    /\ Len(history) = 2
    /\ history[1].date_assigned = 59
    /\ history[1].assignment_date = << 2024, 5, 1 >>
    /\ history[2].date_assigned = SecondsPerDay
    /\ history[2].assignment_date = << 2024, 5, 2 >>
    /\ \A i \in 1..2 : history[i].email_sent = 1

\* C14: migration is additive: a run of initialize_database, committed or
\* not, keeps every row, and every column a row had keeps its value.
C14_MigrationKeepsRows ==
    [][ init_log' # init_log
        => /\ Len(history') = Len(history)
           /\ \A i \in DOMAIN history :
                \A c \in DOMAIN history[i] :
                    /\ c \in DOMAIN history'[i]
                    /\ history'[i][c] = history[i][c]
           /\ workers' = workers
           /\ houses' = houses ]_vars

\* C14 witness: a run added email_sent only, to a table whose rows keep an
\* assignment date of their own and a NULL one.
C14_Witness ==
    /\ init_log = << << "Added email_sent column.", PrintedOk >> >>
    /\ Len(history) = 2
    /\ history[1].assignment_date = NullDate
    /\ history[2].assignment_date # NullDate
    /\ history[2].assignment_date # DATE(history[2].date_assigned)
    /\ \A i \in 1..2 : history[i].email_sent = 1

\* C15: initialization is all-or-nothing: a run of initialize_database that
\* fails leaves the tables, their columns and their rows as it found them.
C15_InitializationAllOrNothing ==
    [][ ( /\ init_log' # init_log
          /\ ~ initialized_ok(LastRun(init_log')) )
        => /\ schema' = schema
           /\ history' = history ]_vars

\* C16: storage and schema errors are not swallowed: the session serves
\* handlers only after an initialization that was committed, and a list of
\* available houses is on screen for the picker's date only if the read of
\* the houses assigned for that date can have succeeded.
C16_ErrorsSurface ==
    /\ process = "mainloop" => initialized_ok(LastRun(init_log))
    /\ ( process = "mainloop" /\ date_picker # NoDate /\ house_frames # << >> )
         => history_columns_exist(schema)

\* C17: a commit that fails, on an insert or on the send, reports the
\* failure and leaves the current worker, the checked houses with their
\* quantities and notes, and the chosen date as they were.
C17_FailedCommitKeepsContext ==
    [][ ( \/ ( history' # history /\ msg' # MsgSuccess )
          \/ msg' \in { MsgFailedStorage, MsgFailedEmail } )
        => /\ msg' \in { MsgFailedStorage, MsgFailedEmail }
           /\ current_worker' = current_worker
           /\ FormSelection' = FormSelection
           /\ house_vars' = house_vars
           /\ house_qty' = house_qty
           /\ house_notes' = house_notes
           /\ date_picker' = date_picker ]_vars

\* C17 witness: the second insert of a batch of two houses has just failed;
\* the form still holds the worker, both houses, a quantity that was typed
\* and a note.
C17_Witness ==
    /\ msg = MsgFailedStorage
    /\ Len(history) = 1
    /\ current_worker # NoWorker
    /\ Len(FormSelection) = 2
    /\ FormSelection[1][2] = 0
    /\ FormSelection[2][3] = "late ok"
    /\ date_picker = Tomorrow

\* The upper-case and lower-case forms of the letters the model's texts use
CasePairs ==
    { << "A", "a" >>, << "B", "b" >>, << "E", "e" >>, << "K", "k" >>,
      << "L", "l" >>, << "N", "n" >>, << "O", "o" >>, << "T", "t" >>,
      << "X", "x" >> }

SameLetter(a, b) ==
    \/ a = b
    \/ << a, b >> \in CasePairs
    \/ << b, a >> \in CasePairs

\* sub occurs in text when case is ignored
FoundIgnoringCase(sub, text) ==
    \E k \in 0..(Len(text) - Len(sub)) :
        \A i \in 1..Len(sub) : SameLetter(sub[i], text[k + i])

\* Row i of assignment_history matches the filter text
MatchesFilter(text, i) ==
    \/ FoundIgnoringCase(text, Chars(workers[history[i].worker_id].name))
    \/ FoundIgnoringCase(text, Chars(houses[history[i].house_id]))
    \/ FoundIgnoringCase(text, IF history[i].note = NullText
                                THEN << >>
                                ELSE Chars(history[i].note))

\* How often the line y occurs in the list L
LineCount(L, y) == Cardinality({ k \in DOMAIN L : L[k] = y })

\* C18: the history list under a filter text holds a line for a row if and
\* only if the text, ignoring case, is a substring of the row's worker name,
\* house name or note (a NULL note counting as empty); the empty filter keeps
\* every row.
C18_FilterKeepsMatches ==
    filter_var # NoFilter =>
        LET J == joined_rows(workers, houses, history)
            line(i) == history_line(workers, houses, history, i)
        IN  /\ \A y \in Range(tree) \cup { line(i) : i \in J } :
                 LineCount(tree, y) =
                   Cardinality({ i \in J : /\ MatchesFilter(filter_var, i)
                                            /\ line(i) = y })
            /\ filter_var = << >> => Len(tree) = Cardinality(J)

\* C18 witness: the filter "b" keeps the one row of house "B", whose worker
\* name and NULL note do not match, and drops the row of house "A".
C18_Witness ==
    /\ filter_var = << "b" >>
    /\ Len(history) = 2
    /\ Len(tree) = 1
    /\ tree[1][1] = "Ana"
    /\ tree[1][2] = "B"
    /\ tree[1][4] = ""
    /\ msg = NoMessage

\* C19: an export writes the header and then exactly the lines the history
\* list shows for its filter, in the same order of record dates and with the
\* same field values.
C19_ExportMatchesList ==
    msg = MsgExported =>
        /\ csvfile[1] = CsvHeader
        /\ Len(csvfile) = Len(tree) + 1
        /\ \A k \in DOMAIN tree : csvfile[k + 1][6] = tree[k][6]
        /\ \A y \in Range(tree) \cup Range(Tail(csvfile)) :
             LineCount(Tail(csvfile), y) = LineCount(tree, y)

\* The lines of L are lines of distinct rows in descending date_assigned
NewestFirst(L) ==
    \E o \in [ DOMAIN L -> DOMAIN history ] :
        /\ \A p, q \in DOMAIN L :
             p < q => /\ o[p] # o[q]
                      /\ history[o[p]].date_assigned
                           >= history[o[q]].date_assigned
        /\ \A k \in DOMAIN L :
             L[k] = history_line(workers, houses, history, o[k])

\* C20: the history list and the exported rows are in descending order of
\* date_assigned, whatever the order of the rows' ids and assignment dates.
C20_NewestFirst ==
    /\ filter_var # NoFilter => NewestFirst(tree)
    /\ csvfile # << >> => NewestFirst(Tail(csvfile))

\* C20 witness: the list and the export show the row of id 1 before the row
\* of id 2: it was created later, and is for the earlier assignment date.
C20_Witness ==
    /\ Len(history) = 2
    /\ history[1].date_assigned > history[2].date_assigned
    /\ history[1].assignment_date = << 2024, 5, 1 >>
    /\ history[2].assignment_date = << 2024, 5, 2 >>
    /\ Len(tree) = 2
    /\ tree[1] = history_line(workers, houses, history, 1)
    /\ tree[1] # tree[2]
    /\ Len(csvfile) = 3
    /\ Tail(csvfile) = tree

\* C21: every fetch_all and execute call closes the connection it opened
\* before it returns or raises, so between two Repository calls no connection
\* is open.
C21_ConnectionsClosed == open_connections = 0

\* An execute call raised on a store that an earlier call had written, and
\* no connection is open after it
C21_Witness ==
    /\ returned.call = "execute"
    /\ returned.raised
    /\ DOMAIN workers # { }
    /\ open_connections = 0

\* C22: within a commit send_assignment_email is called only after the insert
\* of every selection of the batch has returned, and a commit in which an
\* insert raises calls it not at all.
C22_NotifyAfterEveryInsert ==
    [][ LET sel     == FormSelection
            n       == Len(sel)
            written == Len(history') - Len(history)
        IN  /\ email_call' # NoCall =>
                 /\ n > 0
                 /\ written = n
                 /\ \A k \in 1..n :
                      /\ history'[Len(history) + k].worker_id = current_worker[1]
                      /\ history'[Len(history) + k].house_id = sel[k][1]
                      /\ history'[Len(history) + k].quantity = sel[k][2]
                      /\ history'[Len(history) + k].note = sel[k][3]
            /\ msg' = MsgFailedStorage =>
                 /\ written < n
                 /\ email_call' = NoCall
      ]_vars

\* C22 witness: both houses are checked, the first was inserted and the
\* insert of the second raised: the row is stored and no e-mail was sent.
C22_Witness ==
    /\ msg = MsgFailedStorage
    /\ email_call = NoCall
    /\ Len(history) = 1
    /\ DOMAIN house_vars = { 1, 2 }
    /\ \A h \in DOMAIN house_vars : house_vars[h] = 1

\* The messages Send Assignments shows when it runs with a worker set
SendMessagesWithWorker ==
    { MsgSelectHouse, MsgNoDatePicker, MsgFailedStorage, MsgFailedEmail,
      MsgSuccess }

\* C23: current_worker is never stale at commit time: whenever Send
\* Assignments runs with a worker set, the id of current_worker is an id of
\* the workers table, and the name and the e-mail address passed to
\* send_assignment_email are the ones the table holds for that id.
C23_CurrentWorkerFresh ==
    [][ /\ msg' \in SendMessagesWithWorker =>
             current_worker[1] \in DOMAIN workers
        /\ email_call' # NoCall =>
             /\ current_worker[1] \in DOMAIN workers
             /\ email_call'.worker_name = workers[current_worker[1]].name
             /\ email_call'.to_email = workers[current_worker[1]].email
      ]_vars

\* The ids of table tbl that some row of assignment_history refers to through
\* `column` although the table holds no row for them
Dangling(hist, column, tbl) ==
    { hist[i][column] : i \in DOMAIN hist } \ DOMAIN tbl

\* C24: worker ids and house ids are never reused: every id of a table was
\* given out by its sqlite_sequence, which never falls; an insert receives an
\* id above it, that is an id no row has had before; and an id that an
\* assignment_history row refers to after its worker or house was deleted
\* belongs to no worker or house in the next state, hence in no later one.
C24_IdsNeverReused ==
    [][ /\ DOMAIN workers \subseteq 1..worker_seq
        /\ DOMAIN houses \subseteq 1..house_seq
        /\ worker_seq' >= worker_seq
        /\ house_seq' >= house_seq
        /\ \A id \in DOMAIN workers' \ DOMAIN workers : id > worker_seq
        /\ \A id \in DOMAIN houses' \ DOMAIN houses : id > house_seq
        /\ Dangling(history, "worker_id", workers)
             \subseteq Dangling(history', "worker_id", workers')
        /\ Dangling(history, "house_id", houses)
             \subseteq Dangling(history', "house_id", houses')
      ]_vars

\* C24 witness: the worker and the house of a stored assignment were deleted,
\* and the tables hold another worker and another house, under later ids.
C24_Witness ==
    /\ 1 \in Dangling(history, "worker_id", workers)
    /\ 1 \in Dangling(history, "house_id", houses)
    /\ DOMAIN workers = { 2 }
    /\ DOMAIN houses = { 2 }

====
